---- MODULE Spec2Model ----
(***************************************************************************)
(* Model of helpers.py: the typed dataset codec (save_dataset and          *)
(* load_dataset), the identifier lookups over the mapping table and the    *)
(* map, and get_last_day_of_quarter.                                       *)
(*                                                                         *)
(* A file is a sequence of tokens: "\n", "," and atoms (maximal runs of    *)
(* other characters, kept as strings).  A cell value is a record           *)
(* [k, n, s]: kind, number, text.                                          *)
(***************************************************************************)
EXTENDS Integers, Sequences, FiniteSets, TLC

VARIABLES
    disk,       \* tokens of the destination file
    exists,     \* whether the destination file exists
    handles,    \* number of file handles currently open
    acquired,   \* number of file handles the last call opened
    lastSaved,  \* the Dataset of the last save_dataset call that returned
    shrunk,     \* the last call replaced a longer file by a shorter one
    ret,        \* the Dataset returned by the last load_dataset call
    op,         \* the last call
    exc,        \* the exception the last call raised, "none" if it returned
    mappings,   \* the mapping table handed to the lookups
    map,        \* the map (polygons, crs) handed to get_mid_by_coords
    key,        \* the key of the last lookup call
    out         \* the value the last lookup call returned

vars == <<disk, exists, handles, acquired, lastSaved, shrunk, ret, op, exc,
          mappings, map, key, out>>

codecVars == <<disk, exists, handles, acquired, lastSaved, shrunk, ret>>
lookupVars == <<mappings, map, key, out>>

(***************************************************************************)
(* Bounds                                                                  *)
(***************************************************************************)
MaxCols == 2
MaxRows == 2
MaxSeed == 2
MaxInt == 12

(***************************************************************************)
(* Values and column types                                                 *)
(***************************************************************************)
NL == "\n"
Comma == ","
QuotedEmpty == "\"\""

IntV(n) == [k |-> "int", n |-> n, s |-> ""]
FloatV(t) == [k |-> "float", n |-> t, s |-> ""]   \* n is the value in tenths
BoolV(b) == [k |-> "bool", n |-> b, s |-> ""]
StrV(s) == [k |-> "str", n |-> 0, s |-> s]
TsV(d) == [k |-> "ts", n |-> d, s |-> ""]         \* day d of January 2020
NaN == [k |-> "nan", n |-> 0, s |-> ""]
None == [k |-> "none", n |-> 0, s |-> ""]

Dtypes == <<"integer", "string", "floating", "boolean", "categorical", "datetime">>

\* str(dtype), as written to the first line
DtypeStr(dt) ==
    CASE dt = "integer" -> "int64"
      [] dt = "floating" -> "float64"
      [] dt = "string" -> "object"
      [] dt = "boolean" -> "bool"
      [] dt = "datetime" -> "datetime64[ns]"
      [] dt = "categorical" -> "category"

\* the dtype read_csv resolves a type tag to, "unknown" when it is none
PandasDtype(tag) ==
    CASE tag = "int64" -> "integer"
      [] tag = "float64" -> "floating"
      [] tag = "object" -> "string"
      [] tag = "bool" -> "boolean"
      [] tag = "datetime64[ns]" -> "datetime"
      [] tag = "category" -> "categorical"
      [] OTHER -> "unknown"

NoData == [dtypes |-> <<>>, columns |-> <<>>, rows |-> <<>>]

(***************************************************************************)
(* Text of a value, as to_csv writes it                                    *)
(***************************************************************************)
Pad2(n) == IF n < 10 THEN "0" \o ToString(n) ELSE ToString(n)

FormatValue(v) ==
    CASE v.k = "int" -> ToString(v.n)
      [] v.k = "float" -> ToString(v.n \div 10) \o "." \o ToString(v.n % 10)
      [] v.k = "bool" -> IF v.n = 1 THEN "True" ELSE "False"
      [] v.k = "str" -> v.s
      [] v.k = "ts" -> "2020-01-" \o Pad2(v.n)
      [] OTHER -> ""

\* fields joined by the delimiter; an empty field contributes no atom
RECURSIVE Join(_)
Join(fields) ==
    IF Len(fields) = 0 THEN <<>>
    ELSE LET f == IF fields[1] = "" THEN <<>> ELSE <<fields[1]>>
         IN IF Len(fields) = 1 THEN f
            ELSE f \o <<Comma>> \o Join(Tail(fields))

\* csv.writer: a record of one empty field is written quoted
CsvRecord(fields) ==
    (IF fields = <<"">> THEN <<QuotedEmpty>> ELSE Join(fields)) \o <<NL>>

RECURSIVE CsvRows(_)
CsvRows(rows) ==
    IF Len(rows) = 0 THEN <<>>
    ELSE CsvRecord([j \in 1..Len(rows[1]) |-> FormatValue(rows[1][j])])
         \o CsvRows(Tail(rows))

RECURSIVE IndexedRows(_, _)
IndexedRows(rows, i) ==
    IF Len(rows) = 0 THEN <<>>
    ELSE CsvRecord(<<ToString(i)>> \o [j \in 1..Len(rows[1]) |-> FormatValue(rows[1][j])])
         \o IndexedRows(Tail(rows), i + 1)

\* to_csv with the row index written (index=True)
MutToCsv(D) == CsvRecord(<<"">> \o D.columns) \o IndexedRows(D.rows, 0)

\* dataset.to_csv(f, index=False, lineterminator="\n")
ToCsv(D) == CsvRecord(D.columns) \o CsvRows(D.rows)

\* ",".join(map(str, dataset.dtypes)) + "\n"
TypesLine(D) == Join([j \in 1..Len(D.dtypes) |-> DtypeStr(D.dtypes[j])]) \o <<NL>>

(***************************************************************************)
(* Reading lines and fields                                                *)
(***************************************************************************)
FirstNL(toks) ==
    IF \E i \in 1..Len(toks) : toks[i] = NL
    THEN CHOOSE i \in 1..Len(toks) : toks[i] = NL /\ \A h \in 1..(i - 1) : toks[h] # NL
    ELSE 0

\* next(f): the next line with its terminator; the caller checks for the end
NextLine(toks) ==
    IF FirstNL(toks) = 0 THEN toks ELSE SubSeq(toks, 1, FirstNL(toks))

AfterLine(toks) ==
    IF FirstNL(toks) = 0 THEN <<>> ELSE SubSeq(toks, FirstNL(toks) + 1, Len(toks))

\* str.rstrip(): trailing whitespace removed
RECURSIVE Rstrip(_)
Rstrip(line) ==
    IF Len(line) > 0 /\ line[Len(line)] = NL
    THEN Rstrip(SubSeq(line, 1, Len(line) - 1))
    ELSE line

RECURSIVE Concat(_)
Concat(toks) == IF Len(toks) = 0 THEN "" ELSE toks[1] \o Concat(Tail(toks))

FirstComma(toks) ==
    IF \E i \in 1..Len(toks) : toks[i] = Comma
    THEN CHOOSE i \in 1..Len(toks) : toks[i] = Comma /\ \A h \in 1..(i - 1) : toks[h] # Comma
    ELSE 0

\* str.split(","): one field more than there are commas
RECURSIVE Split(_)
Split(line) ==
    IF FirstComma(line) = 0 THEN <<Concat(line)>>
    ELSE <<Concat(SubSeq(line, 1, FirstComma(line) - 1))>>
         \o Split(SubSeq(line, FirstComma(line) + 1, Len(line)))

\* the header line split without stripping its terminator
MutHeaderFields(line) == Split(line)

\* next(f).rstrip().split(",")[0:]
HeaderFields(line) == Split(Rstrip(line))

\* the fields of one CSV record: split at the delimiter, quotes removed
CsvFields(line) ==
    LET raw == Split(line)
    IN [j \in 1..Len(raw) |-> IF raw[j] = QuotedEmpty THEN "" ELSE raw[j]]

\* the records of the data section; blank lines are skipped
RECURSIVE CsvLines(_)
CsvLines(toks) ==
    IF Len(toks) = 0 THEN <<>>
    ELSE LET line == Rstrip(NextLine(toks))
         IN (IF Len(line) = 0 THEN <<>> ELSE <<CsvFields(line)>>)
            \o CsvLines(AfterLine(toks))

(***************************************************************************)
(* Type coercion of read_csv                                               *)
(***************************************************************************)
NAValues == {"", "NA", "N/A", "NaN", "nan", "NULL", "null", "None", "n/a",
             "<NA>", "#N/A", "#NA", "-NaN", "-nan"}
TrueValues == {"True", "TRUE", "true"}
FalseValues == {"False", "FALSE", "false"}

IsNA(s) == s \in NAValues
IsIntText(s) == \E n \in 0..MaxInt : ToString(n) = s
IntOf(s) == CHOOSE n \in 0..MaxInt : ToString(n) = s
IsFloatText(s) == \E t \in 0..(10 * MaxInt + 9) : FormatValue(FloatV(t)) = s
TenthsOf(s) == CHOOSE t \in 0..(10 * MaxInt + 9) : FormatValue(FloatV(t)) = s
IsBoolText(s) == s \in TrueValues \cup FalseValues

\* whether a field converts to the dtype
Converts(s, dt) ==
    CASE dt = "integer" -> IsIntText(s)
      [] dt = "floating" -> IsNA(s) \/ IsIntText(s) \/ IsFloatText(s)
      [] dt = "boolean" -> IsBoolText(s)
      [] dt = "datetime" -> FALSE
      [] OTHER -> TRUE

\* the exception a field that does not convert raises
CoercionError(dt) == IF dt = "datetime" THEN "TypeError" ELSE "ValueError"

Parse(s, dt) ==
    CASE dt = "integer" -> IntV(IntOf(s))
      [] dt = "floating" ->
            IF IsNA(s) THEN NaN
            ELSE IF IsIntText(s) THEN FloatV(10 * IntOf(s))
            ELSE FloatV(TenthsOf(s))
      [] dt = "boolean" -> BoolV(IF s \in TrueValues THEN 1 ELSE 0)
      [] OTHER -> IF IsNA(s) THEN NaN ELSE StrV(s)

\* the dtype of a column that has no declared type
Infer(texts) ==
    IF Len(texts) = 0 THEN "string"
    ELSE IF \A i \in 1..Len(texts) : IsIntText(texts[i]) THEN "integer"
    ELSE IF \A i \in 1..Len(texts) : Converts(texts[i], "floating") THEN "floating"
    ELSE IF \A i \in 1..Len(texts) : IsBoolText(texts[i]) THEN "boolean"
    ELSE "string"

\* dict(zip(columns, types)): pairs up to the shorter length, last pair wins
ZipDict(columns, types) ==
    LET m == IF Len(columns) < Len(types) THEN Len(columns) ELSE Len(types)
    IN [name \in {columns[i] : i \in 1..m} |->
            types[CHOOSE i \in 1..m : /\ columns[i] = name
                                      /\ \A h \in (i + 1)..m : columns[h] # name]]

Max(a, b) == IF a > b THEN a ELSE b

\* pd.read_csv(f, dtype=dtype, names=names) on the rest of the file
ReadCsv(rest, dtype, names) ==
    LET N == Len(names)
        recs == CsvLines(rest)
        R == Len(recs)
        W == IF R = 0 THEN N ELSE Max(Len(recs[1]), N)
        lead == W - N
        text(i, j) == IF lead + j <= Len(recs[i]) THEN recs[i][lead + j] ELSE ""
        col(j) == [i \in 1..R |-> text(i, j)]
        declared(j) == names[j] \in DOMAIN dtype
        dt(j) == IF declared(j) THEN PandasDtype(dtype[names[j]]) ELSE Infer(col(j))
        bad(j) == \E i \in 1..R : ~Converts(text(i, j), dt(j))
    IN IF \E i, j \in 1..N : i # j /\ names[i] = names[j]
       THEN [exc |-> "ValueError", data |-> NoData]
       ELSE IF \E name \in DOMAIN dtype : PandasDtype(dtype[name]) = "unknown"
       THEN [exc |-> "TypeError", data |-> NoData]
       ELSE IF \E i \in 2..R : Len(recs[i]) > W
       THEN [exc |-> "ParserError", data |-> NoData]
       ELSE IF \E j \in 1..N : bad(j)
       THEN [exc |-> CoercionError(dt(CHOOSE j \in 1..N : bad(j) /\ \A h \in 1..(j - 1) : ~bad(h))),
             data |-> NoData]
       ELSE [exc |-> "none",
             data |-> [dtypes |-> [j \in 1..N |-> dt(j)],
                       columns |-> names,
                       rows |-> [i \in 1..R |-> [j \in 1..N |-> Parse(text(i, j), dt(j))]]]]

\* the body of load_dataset after the open
LoadBody(content) ==
    IF Len(content) = 0
    THEN [exc |-> "StopIteration", data |-> NoData]
    ELSE IF Len(AfterLine(content)) = 0
    THEN [exc |-> "StopIteration", data |-> NoData]
    ELSE LET types == HeaderFields(NextLine(content))
             columns == HeaderFields(NextLine(AfterLine(content)))
         IN ReadCsv(AfterLine(AfterLine(content)), ZipDict(columns, types), columns)

(***************************************************************************)
(* The Datasets callers save, and the files other programs leave           *)
(***************************************************************************)
NamePool == <<"id", "name", "year", "value", "code">>

Pool(dt) ==
    CASE dt = "integer" -> <<IntV(1), IntV(2), IntV(10)>>
      [] dt = "string" -> <<StrV("Helsinki"), StrV("Turku"), StrV("NA")>>
      [] dt = "floating" -> <<FloatV(15), FloatV(20), NaN>>
      [] dt = "boolean" -> <<BoolV(1), BoolV(0)>>
      [] dt = "categorical" -> <<StrV("a"), StrV("b")>>
      [] dt = "datetime" -> <<TsV(1), TsV(31)>>

Sample(dt, i) == Pool(dt)[(i % Len(Pool(dt))) + 1]

SchemaOf(N, t) == [j \in 1..N |-> Dtypes[((t + j - 1) % Len(Dtypes)) + 1]]

MkDataset(N, t, R, seed) ==
    [dtypes |-> SchemaOf(N, t),
     columns |-> [j \in 1..N |-> NamePool[j + (seed % 2)]],
     rows |-> [i \in 1..R |-> [j \in 1..N |-> Sample(SchemaOf(N, t)[j], seed + i + j)]]]

Datasets ==
    {MkDataset(N, t, R, seed) :
        N \in 1..MaxCols, t \in 0..(Len(Dtypes) - 1), R \in 0..MaxRows, seed \in 0..MaxSeed}

\* a file of nT type tags, nN names and R rows of nN fields, but k fields in row j
RawFile(nT, nN, t, R, j, k) ==
    LET field(i, c) == IF c <= nT THEN FormatValue(Sample(SchemaOf(nT, t)[c], i + c))
                       ELSE ToString(i + c)
        width(i) == IF i = j THEN k ELSE nN
        RECURSIVE rows(_)
        rows(i) == IF i > R THEN <<>>
                   ELSE Join([c \in 1..width(i) |-> field(i, c)]) \o <<NL>> \o rows(i + 1)
    IN Join([c \in 1..nT |-> DtypeStr(SchemaOf(nT, t)[c])]) \o <<NL>>
       \o Join([c \in 1..nN |-> NamePool[c]]) \o <<NL>>
       \o rows(1)

RawFiles ==
    {RawFile(nT, nN, t, R, j, k) :
        nT \in 1..MaxCols, nN \in 1..MaxCols, t \in 0..1, R \in 0..MaxRows,
        j \in 0..MaxRows, k \in 0..(MaxCols + 1)}
    \cup {<<>>, <<"int64", NL>>, <<"int64", NL, "id">>, <<"float32", NL, "id", NL, "1", NL>>}

(***************************************************************************)
(* save_dataset and load_dataset                                           *)
(***************************************************************************)
\* a write mode that does not truncate
MutOpenFile(content, mode) == content

\* open(filename, mode): "wt" truncates, "rt" leaves the content
OpenFile(content, mode) == IF mode = "wt" THEN <<>> ELSE content

\* f.write(...) and the writes of to_csv append at the position of the handle
FWrite(content, toks) == content \o toks

\* the handle closed on normal return only (close() after the writes, no with)
MutWithExit(acq, e) == IF e = "none" THEN acq ELSE 0

\* handles released when the with block is left, whether or not by an exception
WithExit(acq, e) == acq

SaveFaults == {"none", "open", "write", "to_csv"}

\* the file after save_dataset, the I/O fault (if any) striking at the named call
SaveBody(content, D, fault) ==
    LET c0 == OpenFile(content, "wt")
        c1 == IF fault = "write" THEN c0 ELSE FWrite(c0, TypesLine(D))
    IN IF fault = "none" THEN FWrite(c1, ToCsv(D)) ELSE c1

save_dataset ==
    \E D \in Datasets, fault \in SaveFaults :
        /\ op' = "save"
        /\ ret' = NoData
        /\ exc' = IF fault = "none" THEN "none" ELSE "OSError"
        /\ IF fault = "open"
           THEN /\ acquired' = 0
                /\ shrunk' = FALSE
                /\ UNCHANGED <<disk, exists, lastSaved>>
           ELSE /\ acquired' = 1
                /\ disk' = SaveBody(disk, D, fault)
                /\ exists' = TRUE
                /\ shrunk' = (exists /\ Len(disk') < Len(disk))
                /\ lastSaved' = IF fault = "none" THEN D ELSE NoData
        /\ handles' = handles + acquired' - WithExit(acquired', exc')
        /\ UNCHANGED lookupVars

load_dataset ==
    /\ op' = "load"
    /\ shrunk' = FALSE
    /\ IF ~exists
       THEN /\ acquired' = 0
            /\ exc' = "FileNotFoundError"
            /\ ret' = NoData
            /\ disk' = disk
       ELSE /\ acquired' = 1
            /\ disk' = OpenFile(disk, "rt")
            /\ exc' = LoadBody(disk').exc
            /\ ret' = LoadBody(disk').data
    /\ handles' = handles + acquired' - WithExit(acquired', exc')
    /\ UNCHANGED <<exists, lastSaved>>
    /\ UNCHANGED lookupVars

\* another program writes the file
PutFile ==
    \E c \in RawFiles :
        /\ op' = "put"
        /\ disk' = c
        /\ exists' = TRUE
        /\ lastSaved' = NoData
        /\ shrunk' = FALSE
        /\ ret' = NoData
        /\ exc' = "none"
        /\ acquired' = 0
        /\ UNCHANGED handles
        /\ UNCHANGED lookupVars

CodecInit ==
    /\ disk = <<>>
    /\ exists = FALSE
    /\ handles = 0
    /\ acquired = 0
    /\ lastSaved = NoData
    /\ shrunk = FALSE
    /\ ret = NoData

LookupIdle ==
    /\ mappings = <<>>
    /\ map = [crs |-> "EPSG:4326", polygons |-> <<>>]
    /\ key = [n |-> 0, s |-> "", x |-> 0, y |-> 0]
    /\ out = None

Init == CodecInit /\ LookupIdle /\ op = "init" /\ exc = "none"

Next == save_dataset \/ load_dataset \/ PutFile

Spec == Init /\ [][Next]_vars

(***************************************************************************)
(* The lookups and get_last_day_of_quarter                                 *)
(***************************************************************************)
MaxTableRows == 2
MaxYears == 3
MaxQuarter == 5
MaxCoord == 3

Row(mid, rid, mfi, msv, men, rfi, rsv, ren) ==
    [municipality_id |-> mid, region_id |-> rid,
     municipality_fi |-> mfi, municipality_sv |-> msv, municipality_en |-> men,
     region_fi |-> rfi, region_sv |-> rsv, region_en |-> ren]

RowPool ==
    {Row(91, 1, "Helsinki", "Helsingfors", "Helsinki", "Uusimaa", "Nyland", "Uusimaa"),
     Row(853, 2, "Turku", "Abo", "Turku", "Varsinais-Suomi", "Egentliga Finland", "Southwest Finland"),
     Row(49, 1, "Espoo", "Esbo", "Espoo", "Uusimaa", "Nyland", "Uusimaa"),
     Row(5, 9, "Abo", "Turku", "Helsinki", "Nyland", "Uusimaa", "Southwest Finland"),
     Row(7, 4, "Koko maa", "Hela landet", "Whole country", "KOKO MAA", "HELA LANDET", "WHOLE COUNTRY")}

RECURSIVE SeqsUpTo(_, _)
SeqsUpTo(S, n) ==
    IF n = 0 THEN {<<>>}
    ELSE SeqsUpTo(S, n - 1) \cup {Append(q, x) : q \in {r \in SeqsUpTo(S, n - 1) : Len(r) = n - 1}, x \in S}

Tables == SeqsUpTo(RowPool, MaxTableRows)

MidKeys == {91, 853, 5, 777}
NameKeys == {"Helsinki", "Turku", "Abo", "Nyland", "Uusimaa", "uusimaa", "Uusi",
             "Southwest Finland", "WHOLE COUNTRY", "Oulu"}

Polygon(x0, x1, y0, y1, code) == [x0 |-> x0, x1 |-> x1, y0 |-> y0, y1 |-> y1, NATCODE |-> code]

\* maps in their own coordinate reference system
Maps ==
    {[crs |-> "EPSG:4326", polygons |-> <<Polygon(0, 2, 0, 2, StrV("091")), Polygon(1, 4, 1, 4, StrV("853"))>>],
     [crs |-> "EPSG:3067", polygons |-> <<Polygon(100, 120, 0, 20, StrV("005")), Polygon(120, 140, 0, 20, NaN)>>]}

KeyOf(n, s, x, y) == [n |-> n, s |-> s, x |-> x, y |-> y]

Pad3(n) == IF n < 10 THEN "00" \o ToString(n) ELSE IF n < 100 THEN "0" \o ToString(n) ELSE ToString(n)

\* int(...) of an integer or of a numeric string
PyInt(v) == IF v.k = "str" THEN CHOOSE n \in 0..999 : Pad3(n) = v.s ELSE v.n

\* get_rid_by_mid
get_rid_by_mid(municipality_id, table) ==
    LET match == SelectSeq(table, LAMBDA r : r.municipality_id = municipality_id)
    IN IF Len(match) = 0 THEN [exc |-> "none", val |-> None]
       ELSE [exc |-> "none", val |-> IntV(match[1].region_id)]

\* the last matching row taken instead of the first
Mut_get_rid_by_name(region_name, table) ==
    IF region_name = "WHOLE COUNTRY" THEN [exc |-> "none", val |-> IntV(0)]
    ELSE LET match == SelectSeq(table, LAMBDA r :
                            r.region_fi = region_name \/ r.region_sv = region_name \/ r.region_en = region_name)
         IN IF Len(match) = 0 THEN [exc |-> "none", val |-> None]
            ELSE [exc |-> "none", val |-> IntV(match[Len(match)].region_id)]

\* get_rid_by_name
get_rid_by_name(region_name, table) ==
    IF region_name = "WHOLE COUNTRY" THEN [exc |-> "none", val |-> IntV(0)]
    ELSE LET match == SelectSeq(table, LAMBDA r :
                            r.region_fi = region_name \/ r.region_sv = region_name \/ r.region_en = region_name)
         IN IF Len(match) = 0 THEN [exc |-> "none", val |-> None]
            ELSE [exc |-> "none", val |-> IntV(match[1].region_id)]

\* get_mid_by_name
get_mid_by_name(municipality_name, table) ==
    LET match == SelectSeq(table, LAMBDA r :
                            r.municipality_fi = municipality_name \/ r.municipality_sv = municipality_name \/ r.municipality_en = municipality_name)
    IN IF Len(match) = 0 THEN [exc |-> "none", val |-> None]
       ELSE [exc |-> "none", val |-> IntV(match[1].municipality_id)]

\* get_name_by_mid: .values[0] with no emptiness test
get_name_by_mid(municipality_id, table) ==
    LET match == SelectSeq(table, LAMBDA r : r.municipality_id = municipality_id)
    IN IF Len(match) = 0 THEN [exc |-> "IndexError", val |-> None]
       ELSE [exc |-> "none", val |-> StrV(match[1].municipality_en)]

\* points.to_crs(map.crs): WGS84 degrees to the units of the map
ToCrs(pt, crs) ==
    IF crs = "EPSG:4326" THEN pt
    ELSE [x |-> 100 + 10 * pt.x, y |-> 10 * pt.y]

\* predicate="within": strictly inside
Within(pt, poly) == poly.x0 < pt.x /\ pt.x < poly.x1 /\ poly.y0 < pt.y /\ pt.y < poly.y1

\* gpd.sjoin(points, map, how="left", predicate="within")["NATCODE"]
SJoinNatcode(pt, m) ==
    LET hit == SelectSeq(m.polygons, LAMBDA poly : Within(pt, poly))
    IN IF Len(hit) = 0 THEN <<NaN>> ELSE [i \in 1..Len(hit) |-> hit[i].NATCODE]

\* get_mid_by_coords
get_mid_by_coords(coords, m) ==
    LET natcode == SJoinNatcode(ToCrs(coords, m.crs), m)[1]
    IN IF natcode.k = "nan" THEN [exc |-> "none", val |-> None]
       ELSE [exc |-> "none", val |-> IntV(PyInt(natcode))]

DaysInMonth(y, m) ==
    IF m \in {4, 6, 9, 11} THEN 30
    ELSE IF m = 2 THEN (IF (y % 4 = 0 /\ y % 100 # 0) \/ y % 400 = 0 THEN 29 ELSE 28)
    ELSE 31

\* pd.Timestamp(year, month, day)
Timestamp(y, m, d) ==
    IF m \in 1..12 /\ d \in 1..DaysInMonth(y, m)
    THEN [exc |-> "none", val |-> [k |-> "ts", n |-> y * 10000 + m * 100 + d, s |-> ""]]
    ELSE [exc |-> "ValueError", val |-> None]

\* the third quarter ending on the 31st
Mut_get_last_day_of_quarter(year, quarter) ==
    IF quarter = 1 THEN Timestamp(year, 3, 31)
    ELSE IF quarter = 2 THEN Timestamp(year, 6, 30)
    ELSE IF quarter = 3 THEN Timestamp(year, 9, 31)
    ELSE IF quarter = 4 THEN Timestamp(year, 12, 31)
    ELSE [exc |-> "none", val |-> None]

\* get_last_day_of_quarter
get_last_day_of_quarter(year, quarter) ==
    IF quarter = 1 THEN Timestamp(year, 3, 31)
    ELSE IF quarter = 2 THEN Timestamp(year, 6, 30)
    ELSE IF quarter = 3 THEN Timestamp(year, 9, 30)
    ELSE IF quarter = 4 THEN Timestamp(year, 12, 31)
    ELSE [exc |-> "none", val |-> None]

Returns(k, r) ==
    /\ key' = k
    /\ exc' = r.exc
    /\ out' = r.val
    /\ UNCHANGED <<mappings, map>>
    /\ UNCHANGED codecVars

CallRidByMid ==
    \E id \in MidKeys :
        /\ op' = "get_rid_by_mid"
        /\ Returns(KeyOf(id, "", 0, 0), get_rid_by_mid(id, mappings))

CallRidByName ==
    \E nm \in NameKeys :
        /\ op' = "get_rid_by_name"
        /\ Returns(KeyOf(0, nm, 0, 0), get_rid_by_name(nm, mappings))

CallMidByName ==
    \E nm \in NameKeys :
        /\ op' = "get_mid_by_name"
        /\ Returns(KeyOf(0, nm, 0, 0), get_mid_by_name(nm, mappings))

CallNameByMid ==
    \E id \in MidKeys :
        /\ op' = "get_name_by_mid"
        /\ Returns(KeyOf(id, "", 0, 0), get_name_by_mid(id, mappings))

CallMidByCoords ==
    \E x \in 0..MaxCoord, y \in 0..MaxCoord :
        /\ op' = "get_mid_by_coords"
        /\ Returns(KeyOf(0, "", x, y), get_mid_by_coords([x |-> x, y |-> y], map))

\* key.x is the year, key.y the quarter
CallLastDayOfQuarter ==
    \E y \in 2023..(2023 + MaxYears), q \in 0..MaxQuarter :
        /\ op' = "get_last_day_of_quarter"
        /\ Returns(KeyOf(0, "", y, q), get_last_day_of_quarter(y, q))

LookupInit ==
    /\ mappings \in Tables
    /\ map \in Maps
    /\ key = KeyOf(0, "", 0, 0)
    /\ out = None

InitLookup == LookupInit /\ CodecInit /\ op = "init" /\ exc = "none"

NextLookup ==
    \/ CallNameByMid
    \/ CallRidByMid
    \/ CallRidByName
    \/ CallMidByName
    \/ CallMidByCoords
    \/ CallLastDayOfQuarter

SpecLookup == InitLookup /\ [][NextLookup]_vars

(***************************************************************************)
(* Properties of the codec (under Spec)                                    *)
(***************************************************************************)
CountTok(toks, t) == Cardinality({i \in 1..Len(toks) : toks[i] = t})

RECURSIVE DropLines(_, _)
DropLines(toks, n) == IF n = 0 THEN toks ELSE DropLines(AfterLine(toks), n - 1)

LineAt(toks, i) == NextLine(DropLines(toks, i - 1))

NumLines(toks) ==
    CountTok(toks, NL) + (IF Len(toks) > 0 /\ toks[Len(toks)] # NL THEN 1 ELSE 0)

FieldCount(line) == CountTok(line, Comma) + 1

HeaderMismatch(toks) ==
    /\ NumLines(toks) >= 2
    /\ FieldCount(LineAt(toks, 1)) # FieldCount(LineAt(toks, 2))

RowArityMismatch(toks) ==
    /\ NumLines(toks) >= 3
    /\ FieldCount(LineAt(toks, 1)) = FieldCount(LineAt(toks, 2))
    /\ \E i \in 3..NumLines(toks) : FieldCount(LineAt(toks, i)) # FieldCount(LineAt(toks, 2))

\* the file holds what the last completed save_dataset wrote
HoldsSaved == lastSaved # NoData

\* C1: load_dataset of the file save_dataset wrote for D returns a Dataset equal
\* to D in column order, names, declared types, row count and cell values, for
\* every D of the data model whose names and strings hold no comma or newline.
C1_RoundTrip ==
    (op = "load" /\ HoldsSaved) => (exc = "none" /\ ret = lastSaved)

\* C3: load_dataset of a file whose first line has another number of
\* comma-separated fields than its second line fails; it returns no Dataset.
C3_SchemaMismatchFails ==
    (op = "load" /\ HeaderMismatch(disk)) => (exc # "none" /\ ret = NoData)

\* C4: load_dataset of a file in which a data row (line 3 onward) has another
\* number of fields than the header, fewer or more, fails; it returns no Dataset.
C4_RowArityFails ==
    (op = "load" /\ RowArityMismatch(disk)) => (exc # "none" /\ ret = NoData)

\* C5: a Dataset of zero rows and N >= 1 typed columns, saved and loaded back,
\* is a Dataset of zero rows with the same column order, names and declared types.
C5_EmptyRoundTrip ==
    (op = "load" /\ HoldsSaved /\ Len(lastSaved.rows) = 0) =>
        /\ exc = "none"
        /\ ret.columns = lastSaved.columns
        /\ ret.dtypes = lastSaved.dtypes
        /\ ret.rows = <<>>

C5_Witness ==
    /\ op = "load" /\ HoldsSaved /\ exc = "none"
    /\ Len(lastSaved.rows) = 0 /\ Len(lastSaved.columns) = 2
    /\ ret.dtypes = <<"categorical", "datetime">>

\* C6: the file save_dataset wrote for N columns and R rows has exactly 2 + R
\* lines, each ended by "\n": the N type tags joined by commas, the N column
\* names joined by commas, then the rows in order, N fields each, no row index.
C6_FileLayout ==
    (op = "save" /\ exc = "none") =>
        LET D == lastSaved
            N == Len(D.columns)
            R == Len(D.rows)
        IN /\ CountTok(disk, NL) = 2 + R
           /\ disk[Len(disk)] = NL
           /\ \A i \in 1..(2 + R) : FieldCount(LineAt(disk, i)) = N
           /\ HeaderFields(LineAt(disk, 1)) = [j \in 1..N |-> DtypeStr(D.dtypes[j])]
           /\ HeaderFields(LineAt(disk, 2)) = D.columns
           /\ \A i \in 1..R :
                CsvFields(Rstrip(LineAt(disk, 2 + i))) = [j \in 1..N |-> FormatValue(D.rows[i][j])]

C6_Witness ==
    /\ op = "save" /\ exc = "none"
    /\ Len(lastSaved.rows) = MaxRows /\ Len(lastSaved.columns) = MaxCols
    /\ CountTok(disk, NL) = 2 + MaxRows

\* C7: save_dataset and load_dataset each open at most one file handle, exactly
\* one once the open succeeds, and the handle is closed when the call exits,
\* by return or by an error raised after the open; no handle stays open.
C7_HandleRelease ==
    /\ handles = 0
    /\ acquired \in {0, 1}
    /\ (op = "load" /\ exc # "FileNotFoundError") => acquired = 1
    /\ (op = "save" /\ exc = "none") => acquired = 1

C7_Witness ==
    /\ op = "load" /\ acquired = 1 /\ handles = 0
    /\ exc \in {"StopIteration", "TypeError", "ValueError", "ParserError"}

\* C8: after any completed save_dataset calls and any load_dataset calls the
\* file is exactly the image of the last Dataset saved, also when that image is
\* shorter than what it replaced; load_dataset never changes the file, and a
\* load that follows a load returns the same.
C8_Overwrite ==
    /\ [](HoldsSaved => (exists /\ disk = TypesLine(lastSaved) \o ToCsv(lastSaved)))
    /\ [][op' = "load" => /\ disk' = disk
                          /\ (op = "load" => (ret' = ret /\ exc' = exc))]_vars

C8_Witness ==
    /\ op = "save" /\ exc = "none" /\ shrunk
    /\ disk = TypesLine(lastSaved) \o ToCsv(lastSaved)

(***************************************************************************)
(* Properties of the lookups (under SpecLookup)                            *)
(***************************************************************************)
RegionMatch(r, nm) == nm = r.region_fi \/ nm = r.region_sv \/ nm = r.region_en
MunicipalityMatch(r, nm) ==
    nm = r.municipality_fi \/ nm = r.municipality_sv \/ nm = r.municipality_en

NoRowWithMid == \A i \in 1..Len(mappings) : mappings[i].municipality_id # key.n
NoRegionNamed == \A i \in 1..Len(mappings) : ~RegionMatch(mappings[i], key.s)
NoMunicipalityNamed == \A i \in 1..Len(mappings) : ~MunicipalityMatch(mappings[i], key.s)
NoPolygonAround ==
    \A i \in 1..Len(map.polygons) :
        ~Within(ToCrs([x |-> key.x, y |-> key.y], map.crs), map.polygons[i])

FirstRegionRow ==
    CHOOSE i \in 1..Len(mappings) :
        /\ RegionMatch(mappings[i], key.s)
        /\ \A h \in 1..(i - 1) : ~RegionMatch(mappings[h], key.s)

FirstMunicipalityRow ==
    CHOOSE i \in 1..Len(mappings) :
        /\ MunicipalityMatch(mappings[i], key.s)
        /\ \A h \in 1..(i - 1) : ~MunicipalityMatch(mappings[h], key.s)

Returned(v) == exc = "none" /\ out = v

\* C2: every lookup function, called with a key that matches no row of its
\* table, returns None and raises nothing.
C2_LookupMiss ==
    /\ (op = "get_rid_by_mid" /\ NoRowWithMid) => Returned(None)
    /\ (op = "get_name_by_mid" /\ NoRowWithMid) => Returned(None)
    /\ (op = "get_rid_by_name" /\ NoRegionNamed) => Returned(None)
    /\ (op = "get_mid_by_name" /\ NoMunicipalityNamed) => Returned(None)
    /\ (op = "get_mid_by_coords" /\ NoPolygonAround) => Returned(None)

MidByNameAsClaimed ==
    op = "get_mid_by_name" =>
        IF NoMunicipalityNamed THEN Returned(None)
        ELSE Returned(IntV(mappings[FirstMunicipalityRow].municipality_id))

RidByNameAsClaimed ==
    IF NoRegionNamed THEN Returned(None)
    ELSE Returned(IntV(mappings[FirstRegionRow].region_id))

C10_LastDayOfQuarter ==
    op = "get_last_day_of_quarter" =>
        LET year == key.x
            quarter == key.y
            day == IF quarter \in {1, 4} THEN 31 ELSE 30
        IN IF quarter \in 1..4
           THEN Returned([k |-> "ts", n |-> year * 10000 + 3 * quarter * 100 + day, s |-> ""])
           ELSE Returned(None)

C10_Witness ==
    /\ op = "get_last_day_of_quarter" /\ key.x = 2024 /\ key.y = 3
    /\ Returned([k |-> "ts", n |-> 20240930, s |-> ""])

====
